---- MODULE Spec2Model ----
(***************************************************************************)
(* s3dumper: the asynchronous logging pipeline of a CoreDNS plugin.        *)
(*                                                                         *)
(* The repository holds two implementations of the S3Dumper plugin:        *)
(*   impl = "pool"    a bounded channel drained by a pool of batching      *)
(*                    workers (Init / ServeDNS / worker / OnShutdown);     *)
(*   impl = "buffer"  one mutex-protected LogBuffer shared by the request  *)
(*                    handlers, a ticker goroutine and Shutdown            *)
(*                    (s3dumper.go, buffer.go).                            *)
(* A log entry is identified by its rank among the accepted entries: the   *)
(* k-th entry to enter the queue (or the buffer) is entry k.               *)
(***************************************************************************)
EXTENDS Integers, Sequences, FiniteSets

\* ---------------------------------------------------------------- bounds
MaxRecords == 3      \* ServeDNS invocations that build a log entry
MaxWorkers == 2      \* s.workers ranges over 1..MaxWorkers
NumHandlers == 2     \* concurrent ServeDNS invocations
ShutdownRecords == 5 \* records of the shutdown scenario
TimeRecords == 3     \* records of the runs under fair scheduling
ShedRecords == 10    \* enqueue attempts of the runs without a draw
FaultRecords == 3    \* records of the runs with failures

\* The tunables the runs are drawn from: <<batchSize, cap(queue), dropThresh>>
\* as the fields stand before Init (a zero dropThresh takes the default).
PoolConfigs == {<<1, 2, 50>>, <<3, 2, 0>>, <<1, 1, 0>>}
\* maxSize of the shared buffer.
BufferSizes == {1, 3}

\* s.dropThresh when the field is left zero.
DefaultDropThresh == 90

Handlers == 1..NumHandlers
WorkerIds == 1..MaxWorkers
NoOne == <<"none">>

VARIABLES
  impl,        \* which implementation runs
  workers,     \* s.workers
  batchSize,   \* s.batchSize / LogBuffer.maxSize
  dropThresh,  \* s.dropThresh
  qcap,        \* cap(s.queue)
  maxRec,      \* ServeDNS invocations of the run that build a log entry
  conc,        \* ServeDNS invocations that can be under way at once
  reqs,        \* the kinds of request the run is made of
  errs,        \* the outcomes an Upload call can have (TRUE: it fails)
  arg,         \* the argument of the batch_size directive
  spc,         \* position of setup
  queue,       \* s.queue: the buffered channel's contents
  stop,        \* s.stop has been closed
  sdpc,        \* position of OnShutdown / Shutdown
  attempts,    \* ServeDNS invocations that have built their entry
  nacc,        \* entries that entered the queue / the buffer
  nshed,       \* entries rejected by the shedding branch
  ndrop,       \* entries dropped by the default branch of the send
  hpc,         \* position of each ServeDNS invocation
  wpc,         \* position of each worker goroutine
  wret,        \* where a worker resumes after flush() returns
  batch,       \* each worker's local batch
  inflight,    \* toUpload of each worker's running Upload call
  entries,     \* LogBuffer.entries
  mu,          \* holder of LogBuffer.mu
  tpc,         \* position of the goroutine launched by Start
  spawned,     \* batches of `go s.Uploader.Upload(toFlush)` not yet running
  res,         \* status, err of each ServeDNS invocation under way
  out,         \* what the last ServeDNS invocation to return has returned
  sink,        \* every Upload call made so far
  failed,      \* the Upload calls that have failed
  returned,    \* the Upload calls that have returned
  accAfter     \* an entry entered the queue / the buffer after close(s.stop)

vars == <<impl, workers, batchSize, dropThresh, qcap, maxRec, conc, queue, stop,
          sdpc, attempts, nacc, nshed, ndrop, hpc, wpc, wret, batch,
          inflight, entries, mu, tpc, spawned, sink, accAfter, reqs, errs,
          res, out, failed, returned, arg, spc>>

cfgVars == <<impl, workers, batchSize, dropThresh, qcap, maxRec, conc, reqs,
            errs, arg, spc>>
poolVars == <<queue, wpc, wret, batch, inflight>>
bufVars == <<entries, mu, tpc, spawned>>
countVars == <<attempts, nacc, nshed, ndrop>>

Workers == 1..workers
Callers == 1..conc

\* ------------------------------------------------------------ helpers
Range(s) == {s[i] : i \in 1..Len(s)}

\* An Upload call: who made it, its rank among that caller's calls, the
\* flush that made it ("size": the size test of the main loop or of Add,
\* "drain": the size test of the drain loop, "time": a tick, "final": the
\* last flush of a worker or of Shutdown), the batch, and whether s.stop was
\* still open.
Call(by, kind, recs) ==
  [by |-> by, n |-> Cardinality({c \in sink : c.by = by}) + 1, kind |-> kind,
   recs |-> recs, pre |-> ~stop]

\* The entries handed to the Sink so far.
Sunk == UNION {Range(c.recs) : c \in sink}

\* The latest Upload call of a caller.
LastCall(by) ==
  {c \in sink : c.by = by /\ c.n = Cardinality({d \in sink : d.by = by})}

\* The failed calls once the latest call of a caller has returned, with an
\* error (e) or without.
Outcome(by, e) == IF e THEN failed \cup LastCall(by) ELSE failed

\* ------------------------------------------------------- requests
\* What plugin.NextOrFailure returns: <<status, err # nil>>; the zero
\* values.
NoResult == <<0, FALSE>>

\* The request of the runs that look at the logging only: it has a
\* question, and the next handler answers it without an error.
Plain == [q |-> TRUE, result |-> NoResult]

\* status, err of a ServeDNS invocation that has called the next handler
\* on a request of kind k; next is what the next handler returned.
Held(k) == [next |-> k.result, local |-> k.result]

\* status, err of a ServeDNS invocation that is not under way.
Idle == [next |-> NoResult, local |-> NoResult]

\* A return that loses the error.
ReturnedNoErr(r) == [next |-> r.next, ret |-> <<r.local[1], FALSE>>]

\* return status, err.
Returned(r) == [next |-> r.next, ret |-> r.local]

\* ------------------------------------------------------------ Init
\* S3Dumper.Init: a zero field takes its default.
OrDefault(v, d) == IF v = 0 THEN d ELSE v

\* The plugin's state apart from the batch size and the ticker goroutine,
\* for given tunables, m requests and n of them at a time.
Constructed(i, w, c, t, m, n, k, e) ==
  /\ impl = i
  /\ workers = w
  /\ qcap = c
  /\ dropThresh = OrDefault(t, DefaultDropThresh)
  /\ maxRec = m
  /\ conc = n
  /\ reqs = k
  /\ errs = e
  /\ queue = <<>>
  /\ stop = FALSE
  /\ sdpc = "idle"
  /\ attempts = 0
  /\ nacc = 0
  /\ nshed = 0
  /\ ndrop = 0
  /\ hpc = [h \in Handlers |-> "idle"]
  /\ wpc = [x \in WorkerIds |-> IF i = "pool" /\ x <= w THEN "select" ELSE "none"]
  /\ wret = [x \in WorkerIds |-> "select"]
  /\ batch = [x \in WorkerIds |-> <<>>]
  /\ inflight = [x \in WorkerIds |-> <<>>]
  /\ entries = <<>>
  /\ mu = NoOne
  /\ spawned = {}
  /\ res = [h \in Handlers |-> Idle]
  /\ out = Returned(Idle)
  /\ sink = {}
  /\ failed = {}
  /\ returned = {}
  /\ accAfter = FALSE

\* A batch_size directive: whether its argument is a number, and the
\* number.
Size(v) == [num |-> TRUE, val |-> v]

\* The state after Init (pool) or after setup's parseConfig and Start
\* (buffer).
StartedWith(i, w, b, c, t, m, n, k, e) ==
  /\ Constructed(i, w, c, t, m, n, k, e)
  /\ batchSize = b
  /\ tpc = IF i = "buffer" THEN "select" ELSE "none"
  /\ arg = Size(b)
  /\ spc = "running"

\* The same for runs of plain requests in which no Upload call fails.
Started(i, w, b, c, t, m, n) ==
  StartedWith(i, w, b, c, t, m, n, {Plain}, {FALSE})

Init ==
  \/ \E w \in 1..MaxWorkers, c \in PoolConfigs :
       Started("pool", w, c[1], c[2], c[3], MaxRecords, NumHandlers)
  \/ \E b \in BufferSizes : Started("buffer", 1, b, 1, 0, MaxRecords, NumHandlers)

\* The shutdown scenario: a batch size above the number of records, a queue
\* that takes them all, one worker or two.
InitShutdown ==
  \E w \in {1, 2} :
    Started("pool", w, ShutdownRecords + 1, ShutdownRecords, 0,
            ShutdownRecords, NumHandlers)

\* ------------------------------------------------- pool: request path
\* The shedding test of ServeDNS on the sampled len(s.queue).
ShedNoBoundary(qlen) == qcap > 0 /\ qlen * 100 > qcap * dropThresh
Shed(qlen) == qcap > 0 /\ qlen * 100 >= qcap * dropThresh

\* ServeDNS up to the shedding test: the next handler is called; a request
\* without a question returns at once; else the entry is built,
\* len(s.queue) is sampled, and an overloaded queue makes the handler
\* return at once.
ServeDNS(h) ==
  /\ impl = "pool"
  /\ h \in Callers
  /\ hpc[h] = "idle"
  /\ attempts < maxRec
  /\ \E k \in reqs :
       IF ~k.q
         THEN /\ out' = Returned(Held(k))
              /\ UNCHANGED <<attempts, nshed, hpc, res>>
         ELSE /\ attempts' = attempts + 1
              /\ IF Shed(Len(queue))
                   THEN /\ nshed' = nshed + 1
                        /\ out' = Returned(Held(k))
                        /\ UNCHANGED <<hpc, res>>
                   ELSE /\ hpc' = [hpc EXCEPT ![h] = "send"]
                        /\ res' = [res EXCEPT ![h] = Held(k)]
                        /\ UNCHANGED <<nshed, out>>
  /\ UNCHANGED <<cfgVars, poolVars, bufVars, stop, sdpc, nacc, ndrop, sink, failed, returned,
                 accAfter>>

\* A send that waits for room instead of taking the default branch.
BlockingSend(h) ==
  /\ impl = "pool"
  /\ hpc[h] = "send"
  /\ Len(queue) < qcap
  /\ queue' = Append(queue, nacc + 1)
  /\ nacc' = nacc + 1
  /\ accAfter' = (accAfter \/ stop)
  /\ hpc' = [hpc EXCEPT ![h] = "idle"]
  /\ res' = [res EXCEPT ![h] = Idle]
  /\ out' = Returned(res[h])
  /\ UNCHANGED <<cfgVars, wpc, wret, batch, inflight, bufVars, stop, sdpc,
                 attempts, nshed, ndrop, sink, failed, returned>>

\* A send that does not look at the channel's capacity.
UnboundedSend(h) ==
  /\ impl = "pool"
  /\ hpc[h] = "send"
  /\ queue' = Append(queue, nacc + 1)
  /\ nacc' = nacc + 1
  /\ accAfter' = (accAfter \/ stop)
  /\ hpc' = [hpc EXCEPT ![h] = "idle"]
  /\ res' = [res EXCEPT ![h] = Idle]
  /\ out' = Returned(res[h])
  /\ UNCHANGED <<cfgVars, wpc, wret, batch, inflight, bufVars, stop, sdpc,
                 attempts, nshed, ndrop, sink, failed, returned>>

\* The select of ServeDNS: send if the channel has room, else default; then
\* ServeDNS returns.
Enqueue(h) ==
  /\ impl = "pool"
  /\ hpc[h] = "send"
  /\ IF Len(queue) < qcap
       THEN /\ queue' = Append(queue, nacc + 1)
            /\ nacc' = nacc + 1
            /\ accAfter' = (accAfter \/ stop)
            /\ UNCHANGED ndrop
       ELSE /\ ndrop' = ndrop + 1
            /\ UNCHANGED <<queue, nacc, accAfter>>
  /\ hpc' = [hpc EXCEPT ![h] = "idle"]
  /\ res' = [res EXCEPT ![h] = Idle]
  /\ out' = Returned(res[h])
  /\ UNCHANGED <<cfgVars, wpc, wret, batch, inflight, bufVars, stop, sdpc,
                 attempts, nshed, sink, failed, returned>>

\* ------------------------------------------------------ pool: worker
\* The size test after an append.
sizeTriggerOffByOne(n) == n > batchSize
sizeTrigger(n) == n >= batchSize

\* flush without its len(batch) == 0 test.
flushAlways(w, b, kind, ret) ==
  /\ batch' = [batch EXCEPT ![w] = <<>>]
  /\ inflight' = [inflight EXCEPT ![w] = b]
  /\ sink' = sink \cup {Call(w, kind, b)}
  /\ wpc' = [wpc EXCEPT ![w] = "upload"]
  /\ wret' = [wret EXCEPT ![w] = ret]

\* A flush that waits until no other worker is inside Upload.
flushExclusive(w, b, kind, ret) ==
  IF Len(b) = 0
    THEN /\ batch' = [batch EXCEPT ![w] = b]
         /\ wpc' = [wpc EXCEPT ![w] = ret]
         /\ UNCHANGED <<inflight, sink, wret>>
    ELSE /\ \A x \in Workers \ {w} : wpc[x] # "upload"
         /\ batch' = [batch EXCEPT ![w] = <<>>]
         /\ inflight' = [inflight EXCEPT ![w] = b]
         /\ sink' = sink \cup {Call(w, kind, b)}
         /\ wpc' = [wpc EXCEPT ![w] = "upload"]
         /\ wret' = [wret EXCEPT ![w] = ret]

\* A flush that hands the copy to a new goroutine and does not wait for
\* Upload to return.
flushAsync(w, b, kind, ret) ==
  IF Len(b) = 0
    THEN /\ batch' = [batch EXCEPT ![w] = b]
         /\ wpc' = [wpc EXCEPT ![w] = ret]
         /\ UNCHANGED <<inflight, sink, wret>>
    ELSE /\ batch' = [batch EXCEPT ![w] = <<>>]
         /\ inflight' = [inflight EXCEPT ![w] = b]
         /\ sink' = sink \cup {Call(w, kind, b)}
         /\ wpc' = [wpc EXCEPT ![w] = ret]
         /\ UNCHANGED wret

\* The flush closure of worker, called with batch b; the worker goes on at
\* ret once it has returned. A non-empty batch is copied, the batch is
\* reset and Upload is called with the copy.
flush(w, b, kind, ret) ==
  IF Len(b) = 0
    THEN /\ batch' = [batch EXCEPT ![w] = b]
         /\ wpc' = [wpc EXCEPT ![w] = ret]
         /\ UNCHANGED <<inflight, sink, wret>>
    ELSE /\ batch' = [batch EXCEPT ![w] = <<>>]
         /\ inflight' = [inflight EXCEPT ![w] = b]
         /\ sink' = sink \cup {Call(w, kind, b)}
         /\ wpc' = [wpc EXCEPT ![w] = "upload"]
         /\ wret' = [wret EXCEPT ![w] = ret]

\* An append that puts the entry in front.
prependEntry(w, ret) ==
  LET b == <<Head(queue)>> \o batch[w] IN
  /\ queue' = Tail(queue)
  /\ IF sizeTrigger(Len(b))
       THEN flush(w, b, IF ret = "drain" THEN "drain" ELSE "size", ret)
       ELSE /\ batch' = [batch EXCEPT ![w] = b]
            /\ wpc' = [wpc EXCEPT ![w] = ret]
            /\ UNCHANGED <<inflight, sink, wret>>

\* e := <-s.queue; batch = append(batch, e); the size test; in the loop
\* the worker returns to at ret.
appendEntry(w, ret) ==
  LET b == Append(batch[w], Head(queue)) IN
  /\ queue' = Tail(queue)
  /\ IF sizeTrigger(Len(b))
       THEN flush(w, b, IF ret = "drain" THEN "drain" ELSE "size", ret)
       ELSE /\ batch' = [batch EXCEPT ![w] = b]
            /\ wpc' = [wpc EXCEPT ![w] = ret]
            /\ UNCHANGED <<inflight, sink, wret>>

\* case e := <-s.queue of the main select.
WorkerRecv(w) ==
  /\ w \in Workers
  /\ wpc[w] = "select"
  /\ queue # <<>>
  /\ appendEntry(w, "select")
  /\ UNCHANGED <<cfgVars, bufVars, stop, sdpc, countVars, hpc, res, out,
                 failed, returned, accAfter>>

\* A tick that does not flush.
WorkerTickNoFlush(w) ==
  /\ w \in Workers
  /\ wpc[w] = "select"
  /\ UNCHANGED vars

\* case <-ticker.C of the main select: the worker's ticker has fired and
\* the select takes the tick.
WorkerTick(w) ==
  /\ w \in Workers
  /\ wpc[w] = "select"
  /\ flush(w, batch[w], "time", "select")
  /\ UNCHANGED <<cfgVars, queue, bufVars, stop, sdpc, countVars, hpc, res, out,
                 failed, returned, accAfter>>

\* case <-s.stop of the main select: the worker enters the drain loop.
WorkerStop(w) ==
  /\ w \in Workers
  /\ wpc[w] = "select"
  /\ stop
  /\ wpc' = [wpc EXCEPT ![w] = "drain"]
  /\ UNCHANGED <<cfgVars, queue, wret, batch, inflight, bufVars, stop, sdpc,
                 countVars, hpc, res, out, sink, failed, returned, accAfter>>

\* A drain loop that an entry takes back to the main select.
DrainRecvLeaves(w) ==
  /\ w \in Workers
  /\ wpc[w] = "drain"
  /\ queue # <<>>
  /\ appendEntry(w, "select")
  /\ UNCHANGED <<cfgVars, bufVars, stop, sdpc, countVars, hpc, res, out,
                 failed, returned, accAfter>>

\* case e := <-s.queue of the drain select.
DrainRecv(w) ==
  /\ w \in Workers
  /\ wpc[w] = "drain"
  /\ queue # <<>>
  /\ appendEntry(w, "drain")
  /\ UNCHANGED <<cfgVars, bufVars, stop, sdpc, countVars, hpc, res, out,
                 failed, returned, accAfter>>

\* A drain loop that returns without its final flush.
DrainDefaultNoFlush(w) ==
  /\ w \in Workers
  /\ wpc[w] = "drain"
  /\ queue = <<>>
  /\ wpc' = [wpc EXCEPT ![w] = "stopped"]
  /\ batch' = [batch EXCEPT ![w] = <<>>]
  /\ UNCHANGED <<cfgVars, queue, wret, inflight, bufVars, stop, sdpc, countVars,
                 hpc, res, out, sink, failed, returned, accAfter>>

\* default of the drain select: the final flush, then return.
DrainDefault(w) ==
  /\ w \in Workers
  /\ wpc[w] = "drain"
  /\ queue = <<>>
  /\ flush(w, batch[w], "final", "stopped")
  /\ UNCHANGED <<cfgVars, queue, bufVars, stop, sdpc, countVars, hpc, res, out,
                 failed, returned, accAfter>>

\* An Upload call whose failure puts the batch back into the worker's
\* batch.
UploadReturnRetry(w) ==
  /\ w \in Workers
  /\ wpc[w] = "upload"
  /\ wpc' = [wpc EXCEPT ![w] = wret[w]]
  /\ wret' = [wret EXCEPT ![w] = "select"]
  /\ inflight' = [inflight EXCEPT ![w] = <<>>]
  /\ \E e \in errs :
       /\ failed' = Outcome(w, e)
       /\ batch' = [batch EXCEPT ![w] = IF e THEN inflight[w] ELSE batch[w]]
  /\ returned' = returned \cup LastCall(w)
  /\ UNCHANGED <<cfgVars, queue, bufVars, stop, sdpc, countVars, hpc,
                 res, out, sink, accAfter>>

\* s.Uploader.Upload(toUpload) returns, with or without an error.
UploadReturn(w) ==
  /\ w \in Workers
  /\ wpc[w] = "upload"
  /\ wpc' = [wpc EXCEPT ![w] = wret[w]]
  /\ wret' = [wret EXCEPT ![w] = "select"]
  /\ inflight' = [inflight EXCEPT ![w] = <<>>]
  /\ \E e \in errs : failed' = Outcome(w, e)
  /\ returned' = returned \cup LastCall(w)
  /\ UNCHANGED <<cfgVars, queue, batch, bufVars, stop, sdpc, countVars, hpc,
                 res, out, sink, accAfter>>

\* ---------------------------------------------------- pool: shutdown
\* OnShutdown: close(s.stop).
OnShutdown ==
  /\ impl = "pool"
  /\ sdpc = "idle"
  /\ stop' = TRUE
  /\ sdpc' = "closed"
  /\ UNCHANGED <<cfgVars, poolVars, bufVars, countVars, hpc, res, out, sink, failed, returned, accAfter>>

\* OnShutdown: return nil.
OnShutdownReturn ==
  /\ impl = "pool"
  /\ sdpc = "closed"
  /\ sdpc' = "done"
  /\ UNCHANGED <<cfgVars, poolVars, bufVars, stop, countVars, hpc, res, out, sink, failed, returned,
                 accAfter>>

PoolNext ==
  \/ \E h \in Handlers : ServeDNS(h)
  \/ \E h \in Handlers : Enqueue(h)
  \/ \E w \in WorkerIds : WorkerRecv(w)
  \/ \E w \in WorkerIds : WorkerTick(w)
  \/ \E w \in WorkerIds : WorkerStop(w)
  \/ \E w \in WorkerIds : DrainRecv(w)
  \/ \E w \in WorkerIds : DrainDefault(w)
  \/ \E w \in WorkerIds : UploadReturn(w)
  \/ OnShutdown
  \/ OnShutdownReturn

\* ------------------------------------------------------------- setup
\* parseConfig on the batch_size directive: strconv.Atoi fails on an
\* argument that is no number; NewLogBuffer makes a slice of capacity
\* maxSize, which panics when it is negative.
parseConfig(a) ==
  IF ~a.num
    THEN [err |-> TRUE, panic |-> FALSE, batchSize |-> 0]
    ELSE [err |-> FALSE, panic |-> a.val < 0, batchSize |-> a.val]

\* setup: parseConfig; on an error return it; else Start, register
\* Shutdown and add the plugin to the chain.
Setup ==
  /\ spc = "setup"
  /\ LET d == parseConfig(arg) IN
       IF d.err \/ d.panic
         THEN /\ spc' = (IF d.err THEN "error" ELSE "panic")
              /\ UNCHANGED <<batchSize, tpc>>
         ELSE /\ spc' = "running"
              /\ batchSize' = d.batchSize
              /\ tpc' = "select"
  /\ UNCHANGED <<impl, workers, dropThresh, qcap, maxRec, conc, reqs, errs, arg,
                 poolVars, entries, mu, spawned, stop, sdpc, countVars, hpc,
                 res, out, sink, failed, returned, accAfter>>

\* ------------------------------------------------------ shared buffer
\* A reset in place, b.entries = b.entries[:0]: the slice returned and the
\* buffer share their array.
resetAndReturnInPlace(ents) ==
  IF Len(ents) = 0
    THEN [nil |-> TRUE, ret |-> <<>>, entries |-> ents, shared |-> FALSE]
    ELSE [nil |-> FALSE, ret |-> ents, entries |-> <<>>, shared |-> TRUE]

\* LogBuffer.resetAndReturn on entries ents: the slice it returns (nil or
\* the entries), the entries it leaves, and whether the slice returned
\* shares its array with the buffer (it does not: the buffer gets a new
\* one).
resetAndReturn(ents) ==
  IF Len(ents) = 0
    THEN [nil |-> TRUE, ret |-> <<>>, entries |-> ents, shared |-> FALSE]
    ELSE [nil |-> FALSE, ret |-> ents, entries |-> <<>>, shared |-> FALSE]

\* The size test of LogBuffer.Add.
bufferFull(n) == n >= batchSize

\* LogBuffer.Add once the mutex is held: append, then hand the entries back
\* if the buffer is full.
Add(ents, e) ==
  LET a == Append(ents, e) IN
  IF bufferFull(Len(a))
    THEN resetAndReturn(a)
    ELSE [nil |-> TRUE, ret |-> <<>>, entries |-> a, shared |-> FALSE]

\* The batches sp held by goroutines that have not called Upload yet, once
\* e is written at index i of the buffer's array: a batch that shares the
\* array sees the write.
Written(sp, i, e) ==
  {IF g.shared /\ i <= Len(g.recs) THEN [g EXCEPT !.recs[i] = e] ELSE g :
     g \in sp}

\* `go s.Uploader.Upload(toFlush)` for a non-nil toFlush, added to sp.
Spawn(sp, r, kind) ==
  IF r.nil
    THEN sp
    ELSE sp \cup {[kind |-> kind, recs |-> r.ret, shared |-> r.shared]}

\* An Add that does not wait for the mutex.
AddLockNoMutex(h) ==
  /\ impl = "buffer"
  /\ spc = "running"
  /\ h \in Callers
  /\ hpc[h] = "idle"
  /\ attempts < maxRec
  /\ \E k \in reqs :
       IF ~k.q
         THEN /\ out' = Returned(Held(k))
              /\ UNCHANGED <<mu, attempts, hpc, res>>
         ELSE /\ mu' = <<"handler", h>>
              /\ attempts' = attempts + 1
              /\ hpc' = [hpc EXCEPT ![h] = "locked"]
              /\ res' = [res EXCEPT ![h] = Held(k)]
              /\ UNCHANGED out
  /\ UNCHANGED <<cfgVars, poolVars, entries, tpc, spawned, stop, sdpc, nacc,
                 nshed, ndrop, sink, failed, returned, accAfter>>

\* ServeDNS (s3dumper.go) up to b.mu.Lock() in Add: the next handler is
\* called; a request without a question returns at once; else the entry is
\* built and the mutex is taken.
AddLock(h) ==
  /\ impl = "buffer"
  /\ spc = "running"
  /\ h \in Callers
  /\ hpc[h] = "idle"
  /\ attempts < maxRec
  /\ \E k \in reqs :
       IF ~k.q
         THEN /\ out' = Returned(Held(k))
              /\ UNCHANGED <<mu, attempts, hpc, res>>
         ELSE /\ mu = NoOne
              /\ mu' = <<"handler", h>>
              /\ attempts' = attempts + 1
              /\ hpc' = [hpc EXCEPT ![h] = "locked"]
              /\ res' = [res EXCEPT ![h] = Held(k)]
              /\ UNCHANGED out
  /\ UNCHANGED <<cfgVars, poolVars, entries, tpc, spawned, stop, sdpc, nacc,
                 nshed, ndrop, sink, failed, returned, accAfter>>

\* The body of Add under the mutex, its unlock, and the rest of ServeDNS:
\* a returned batch is uploaded by a new goroutine.
AddBody(h) ==
  /\ impl = "buffer"
  /\ hpc[h] = "locked"
  /\ LET r == Add(entries, nacc + 1) IN
       /\ entries' = r.entries
       /\ spawned' =
            Spawn(Written(spawned, Len(entries) + 1, nacc + 1), r, "size")
  /\ nacc' = nacc + 1
  /\ accAfter' = (accAfter \/ stop)
  /\ mu' = NoOne
  /\ hpc' = [hpc EXCEPT ![h] = "idle"]
  /\ res' = [res EXCEPT ![h] = Idle]
  /\ out' = Returned(res[h])
  /\ UNCHANGED <<cfgVars, poolVars, tpc, stop, sdpc, attempts, nshed, ndrop,
                 sink, failed, returned>>

\* A goroutine started by `go s.Uploader.Upload(toFlush)` runs Upload,
\* which succeeds or logs its failure.
GoUpload ==
  /\ impl = "buffer"
  /\ \E g \in spawned :
       /\ spawned' = spawned \ {g}
       /\ sink' = sink \cup {Call("go", g.kind, g.recs)}
       /\ returned' = returned \cup {Call("go", g.kind, g.recs)}
       /\ \E e \in errs :
            failed' = IF e THEN failed \cup {Call("go", g.kind, g.recs)} ELSE failed
  /\ UNCHANGED <<cfgVars, poolVars, entries, mu, tpc, stop, sdpc, countVars,
                 hpc, res, out, accAfter>>

\* Start's goroutine, case <-ticker.C: the ticker has fired and the select
\* takes the tick.
TickerTick ==
  /\ tpc = "select"
  /\ tpc' = "flush"
  /\ UNCHANGED <<cfgVars, poolVars, entries, mu, spawned, stop, sdpc,
                 countVars, hpc, res, out, sink, failed, returned, accAfter>>

\* Start's goroutine: b.mu.Lock() in Flush.
TickerLock ==
  /\ tpc = "flush"
  /\ mu = NoOne
  /\ mu' = <<"ticker">>
  /\ tpc' = "locked"
  /\ UNCHANGED <<cfgVars, poolVars, entries, spawned, stop, sdpc, countVars,
                 hpc, res, out, sink, failed, returned, accAfter>>

\* Start's goroutine: the body of Flush, its unlock, and the upload of a
\* returned batch by a new goroutine.
TickerFlush ==
  /\ tpc = "locked"
  /\ LET r == resetAndReturn(entries) IN
       /\ entries' = r.entries
       /\ spawned' = Spawn(spawned, r, "time")
  /\ mu' = NoOne
  /\ tpc' = "select"
  /\ UNCHANGED <<cfgVars, poolVars, stop, sdpc, countVars, hpc, res, out, sink, failed, returned,
                 accAfter>>

\* Start's goroutine, case <-s.stop: ticker.Stop() and return.
TickerStop ==
  /\ tpc = "select"
  /\ stop
  /\ tpc' = "exited"
  /\ UNCHANGED <<cfgVars, poolVars, entries, mu, spawned, stop, sdpc,
                 countVars, hpc, res, out, sink, failed, returned, accAfter>>

\* Shutdown: close(s.stop).
Shutdown ==
  /\ impl = "buffer"
  /\ spc = "running"
  /\ sdpc = "idle"
  /\ stop' = TRUE
  /\ sdpc' = "flush"
  /\ UNCHANGED <<cfgVars, poolVars, bufVars, countVars, hpc, res, out, sink, failed, returned, accAfter>>

\* Shutdown: b.mu.Lock() in Flush.
ShutdownLock ==
  /\ sdpc = "flush"
  /\ mu = NoOne
  /\ mu' = <<"shutdown">>
  /\ sdpc' = "locked"
  /\ UNCHANGED <<cfgVars, poolVars, entries, tpc, spawned, stop, countVars,
                 hpc, res, out, sink, failed, returned, accAfter>>

\* Shutdown: the body of Flush, its unlock, and the call of Upload on a
\* returned batch.
ShutdownFlush ==
  /\ sdpc = "locked"
  /\ LET r == resetAndReturn(entries) IN
       /\ entries' = r.entries
       /\ IF r.nil
            THEN /\ sdpc' = "done"
                 /\ UNCHANGED sink
            ELSE /\ sdpc' = "upload"
                 /\ sink' = sink \cup {Call("shutdown", "final", r.ret)}
  /\ mu' = NoOne
  /\ UNCHANGED <<cfgVars, poolVars, tpc, spawned, stop, countVars, hpc, res, out,
                 failed, returned, accAfter>>

\* Shutdown: Upload returns, having succeeded or logged its failure, then
\* return nil.
ShutdownReturn ==
  /\ sdpc = "upload"
  /\ sdpc' = "done"
  /\ \E e \in errs : failed' = Outcome("shutdown", e)
  /\ returned' = returned \cup LastCall("shutdown")
  /\ UNCHANGED <<cfgVars, poolVars, bufVars, stop, countVars, hpc, res, out, sink,
                 accAfter>>

BufferNext ==
  \/ \E h \in Handlers : AddLock(h)
  \/ \E h \in Handlers : AddBody(h)
  \/ GoUpload
  \/ TickerTick
  \/ TickerLock
  \/ TickerFlush
  \/ TickerStop
  \/ Shutdown
  \/ ShutdownLock
  \/ ShutdownFlush
  \/ ShutdownReturn

Next == PoolNext \/ BufferNext

Spec == Init /\ [][Next]_vars

SpecShutdown == InitShutdown /\ [][PoolNext]_vars

\* ------------------------------------------- runs without shutdown
\* A queue that takes every record; a batch size the records reach and one
\* they do not reach.
InitTime ==
  \/ \E w \in {1, 2}, b \in {2, TimeRecords + 1} :
       Started("pool", w, b, TimeRecords, 0, TimeRecords, NumHandlers)
  \/ \E b \in {2, TimeRecords + 1} :
       Started("buffer", 1, b, 1, 0, TimeRecords, NumHandlers)

\* The steps of a run in which OnShutdown / Shutdown is never called.
TimeNext ==
  \/ \E h \in Handlers : ServeDNS(h)
  \/ \E h \in Handlers : Enqueue(h)
  \/ \E w \in WorkerIds : WorkerRecv(w)
  \/ \E w \in WorkerIds : WorkerTick(w)
  \/ \E w \in WorkerIds : UploadReturn(w)
  \/ \E h \in Handlers : AddLock(h)
  \/ \E h \in Handlers : AddBody(h)
  \/ GoUpload
  \/ TickerTick
  \/ TickerLock
  \/ TickerFlush

\* The scheduler runs every goroutine that can take a step, every ticker
\* keeps firing, and every Upload call returns. (A select with several
\* ready cases picks one at random, so a case that stays ready is taken.)
TimeFairness ==
  /\ \A h \in Handlers : WF_vars(Enqueue(h)) /\ WF_vars(AddBody(h))
  /\ \A w \in WorkerIds :
       WF_vars(WorkerRecv(w)) /\ WF_vars(WorkerTick(w)) /\ WF_vars(UploadReturn(w))
  /\ WF_vars(GoUpload)
  /\ WF_vars(TickerTick)
  /\ WF_vars(TickerLock)
  /\ WF_vars(TickerFlush)

SpecTime == InitTime /\ [][TimeNext]_vars /\ TimeFairness

\* ------------------------------------------- runs without a draw
\* <<cap(queue), dropThresh>> of the runs without a draw: the queue of the
\* shedding scenario, and a small queue at the default, at half and at 100%.
ShedConfigs == {<<10, 90>>, <<2, 0>>, <<2, 50>>, <<2, 100>>}

\* Requests served one at a time, or NumHandlers at a time.
InitShed ==
  \E c \in ShedConfigs, n \in {1, NumHandlers} :
    Started("pool", 1, ShedRecords + 1, c[1], c[2], ShedRecords, n)

\* The steps of a run in which no worker draws from the queue.
ShedNext ==
  \/ \E h \in Handlers : ServeDNS(h)
  \/ \E h \in Handlers : Enqueue(h)

SpecShed == InitShed /\ [][ShedNext]_vars

\* ------------------------------------------ shutdown, fairly scheduled
\* One worker or two, a batch size of 1 or 2, a queue of two records.
InitDrain ==
  \E w \in {1, 2}, b \in {1, 2} :
    Started("pool", w, b, 2, 0, TimeRecords, NumHandlers)

\* The scheduler runs every goroutine that can take a step, every ticker
\* keeps firing, and every Upload call returns. A select with several
\* ready cases picks one at random: the case of the closed s.stop, ready
\* whenever the worker is back at its main select, is taken in the end.
DrainFairness ==
  /\ \A h \in Handlers : WF_vars(Enqueue(h))
  /\ \A w \in WorkerIds :
       /\ WF_vars(WorkerRecv(w))
       /\ WF_vars(WorkerTick(w))
       /\ SF_vars(WorkerStop(w))
       /\ WF_vars(DrainRecv(w))
       /\ WF_vars(DrainDefault(w))
       /\ WF_vars(UploadReturn(w))

SpecDrain == InitDrain /\ [][PoolNext]_vars /\ DrainFairness

\* ------------------------------------------------ a stuck Upload call
\* The workers whose Upload calls never return.
StuckWorkers == {1}

\* Two workers, a batch size of 1 or 2, a queue of two records.
InitStuck ==
  \E b \in {1, 2} : Started("pool", 2, b, 2, 0, TimeRecords, NumHandlers)

\* The steps of a run without shutdown in which no Upload call of a stuck
\* worker returns.
StuckNext ==
  \/ \E h \in Handlers : ServeDNS(h)
  \/ \E h \in Handlers : Enqueue(h)
  \/ \E w \in WorkerIds : WorkerRecv(w)
  \/ \E w \in WorkerIds : WorkerTick(w)
  \/ \E w \in WorkerIds \ StuckWorkers : UploadReturn(w)

\* The scheduler runs every goroutine that can take a step, every ticker
\* keeps firing, and the Upload calls of the other workers return.
StuckFairness ==
  /\ \A h \in Handlers : WF_vars(Enqueue(h))
  /\ \A w \in WorkerIds : WF_vars(WorkerRecv(w)) /\ WF_vars(WorkerTick(w))
  /\ \A w \in WorkerIds \ StuckWorkers : WF_vars(UploadReturn(w))

SpecStuck == InitStuck /\ [][StuckNext]_vars /\ StuckFairness

\* --------------------------------------------------- runs from setup
\* The arguments of batch_size the runs are drawn from.
SetupSizes == {-1, 0, 1, 2}

\* Before setup: no buffer, no ticker goroutine; the directive has an
\* argument that is no number, or one of the sizes.
InitSetup ==
  \E a \in {[num |-> FALSE, val |-> 0]} \cup {Size(v) : v \in SetupSizes} :
    /\ Constructed("buffer", 1, 1, 0, MaxRecords, NumHandlers, {Plain}, {FALSE})
    /\ batchSize = 0
    /\ tpc = "none"
    /\ arg = a
    /\ spc = "setup"

SpecSetup == InitSetup /\ [][Setup \/ BufferNext]_vars

\* ----------------------------------------------- runs with failures
\* What the next handler returns in these runs: success, or a failure
\* status with an error.
Results == {<<0, FALSE>>, <<2, TRUE>>}

\* Requests with and without a question, any result of the next handler,
\* Upload calls that succeed or fail; a queue of one record that sheds and
\* drops.
InitFaults ==
  \/ \E w \in {1, 2}, b \in {1, 2} :
       StartedWith("pool", w, b, 1, 0, FaultRecords, NumHandlers,
                   [q : BOOLEAN, result : Results], {FALSE, TRUE})
  \/ \E b \in {1, 2} :
       StartedWith("buffer", 1, b, 1, 0, FaultRecords, NumHandlers,
                   [q : BOOLEAN, result : Results], {FALSE, TRUE})

SpecFaults == InitFaults /\ [][Next]_vars

\* ================================================================ claims
AllStopped == impl = "pool" /\ \A w \in Workers : wpc[w] = "stopped"

\* No entry is in two Upload calls or twice in one.
NoDuplicate ==
  /\ \A c \in sink : Cardinality(Range(c.recs)) = Len(c.recs)
  /\ \A c, d \in sink : c # d => Range(c.recs) \cap Range(d.recs) = {}

\* C1: once shutdown has been signaled and every worker has stopped, the
\* entries handed to the Sink are exactly the accepted entries, each in
\* exactly one batch.
Conservation ==
  (stop /\ AllStopped) => (Sunk = 1..nacc /\ NoDuplicate)

\* C2: an enqueue attempt that samples a queue whose length / capacity is at
\* or above the shedding threshold is rejected on the spot: the handler
\* returns, and nothing is placed in the queue.
SheddingRejects ==
  [][(impl = "pool" /\ attempts' = attempts + 1
        /\ Len(queue) * 100 >= qcap * dropThresh)
       => (nshed' = nshed + 1 /\ queue' = queue /\ nacc' = nacc /\ hpc' = hpc)]_vars

\* A record has been shed with the queue exactly at the threshold and not
\* yet full.
ShedAtThreshold ==
  /\ impl = "pool"
  /\ nshed > 0
  /\ Len(queue) * 100 = qcap * dropThresh
  /\ Len(queue) < qcap

\* C3: the queue never holds more records than its capacity, and the
\* capacity never changes.
CapacityInvariant ==
  /\ [](Len(queue) <= qcap)
  /\ [][qcap' = qcap]_vars

\* A send has found the queue full and the queue is full.
QueueFullDrop == impl = "pool" /\ Len(queue) = qcap /\ ndrop > 0

\* C4: every step of the request path's enqueue attempt can be taken in
\* every reachable state: the send of a handler that has passed the shedding
\* test never waits, whatever the queue and the workers are doing; and in
\* the shared-buffer implementation the holder of the mutex can always
\* finish, and no Upload is called with the mutex held.
NonBlockingEnqueue ==
  /\ \A h \in Handlers :
       /\ hpc[h] = "send" => ENABLED Enqueue(h)
       /\ (impl = "pool" /\ hpc[h] = "idle" /\ attempts < maxRec) => ENABLED ServeDNS(h)
       /\ hpc[h] = "locked" => (mu = <<"handler", h>> /\ ENABLED AddBody(h))
  /\ sdpc = "upload" => mu # <<"shutdown">>

\* A handler is about to send while the queue is full and every worker is
\* inside an Upload call.
SendWhileFullAndUploading ==
  /\ impl = "pool"
  /\ \E h \in Handlers : hpc[h] = "send"
  /\ Len(queue) = qcap
  /\ \A w \in Workers : wpc[w] = "upload"

\* C5: no entry enters the queue or the shared buffer after the shutdown
\* signal.
FailClosed == ~accAfter

\* C6: when OnShutdown has returned, every worker has stopped and has
\* flushed its batch.
ShutdownJoinsWorkers ==
  (impl = "pool" /\ sdpc = "done") =>
    \A w \in Workers : wpc[w] = "stopped" /\ batch[w] = <<>>

\* C7: every batch handed to the Sink, or on its way to it, holds at least
\* one record.
NoEmptyBatch ==
  /\ \A c \in sink : Len(c.recs) >= 1
  /\ \A g \in spawned : Len(g.recs) >= 1
  /\ \A w \in Workers : wpc[w] = "upload" => Len(inflight[w]) >= 1

\* A worker has made its final flush on an empty batch and has stopped
\* without ever calling Upload.
StoppedWithoutCall ==
  /\ impl = "pool"
  /\ \E w \in Workers : wpc[w] = "stopped" /\ \A c \in sink : c.by # w

\* C8: no batch handed to the Sink holds more than batchSize records, no
\* accumulating buffer holds more than batchSize records, and a worker that
\* is about to take a record (Running or Draining) holds fewer than
\* batchSize.
SizeTriggerExact ==
  /\ \A c \in sink : Len(c.recs) <= batchSize
  /\ \A g \in spawned : Len(g.recs) <= batchSize
  /\ \A w \in Workers :
       /\ Len(batch[w]) <= batchSize
       /\ wpc[w] \in {"select", "drain"} => Len(batch[w]) < batchSize
  /\ Len(entries) <= batchSize
  /\ mu = NoOne => Len(entries) < batchSize

\* A full batch of more than one record has been flushed by the size test
\* of the drain loop.
SizeFlushWhileDraining ==
  /\ batchSize > 1
  /\ \E c \in sink : c.kind = "drain" /\ Len(c.recs) = batchSize

\* The shutdown scenario: ShutdownRecords records were accepted, all of them
\* before the shutdown signal, the batch size is larger, no flush was
\* triggered before the signal, and every worker has stopped.
ShutdownPre ==
  /\ impl = "pool"
  /\ batchSize > ShutdownRecords
  /\ nacc = ShutdownRecords
  /\ stop
  /\ ~accAfter
  /\ \A c \in sink : ~c.pre
  /\ AllStopped

\* Exactly one Upload call has been made, with all the records in order.
OneFinalBatch ==
  \E c \in sink : sink = {c} /\ c.recs = [i \in 1..ShutdownRecords |-> i]

\* A worker stops only out of a returned Upload call or with nothing to
\* flush, and it holds nothing once stopped.
StopsAfterReturn ==
  [][\A w \in Workers :
       (wpc[w] # "stopped" /\ wpc'[w] = "stopped") =>
         /\ wpc[w] = "upload" \/ batch[w] = <<>>
         /\ batch'[w] = <<>>
         /\ inflight'[w] = <<>>]_vars

\* C9 as stated: in the shutdown scenario the final state shows exactly one
\* Sink call holding all the records, and a worker stops only after its
\* Sink call has returned.
ShutdownScenario ==
  /\ [](ShutdownPre => OneFinalBatch)
  /\ StopsAfterReturn

\* C9, amended: the same with a single worker and no time-triggered flush
\* at all (none between the signal and the worker's observing it either).
ShutdownScenarioOneWorker ==
  /\ []((ShutdownPre /\ workers = 1 /\ \A c \in sink : c.kind # "time")
          => OneFinalBatch)
  /\ StopsAfterReturn

\* The single worker has stopped after one final flush of all the records.
ShutdownOneBatch ==
  ShutdownPre /\ workers = 1 /\ OneFinalBatch /\ \A c \in sink : c.kind = "final"

\* Scenario B: the batch size is 3, three records were accepted and have all
\* been taken from the queue (or put in the shared buffer), there has been
\* no shutdown signal and no time-triggered flush.
SizeScenarioPre ==
  /\ batchSize = 3
  /\ nacc = 3
  /\ ~stop
  /\ queue = <<>>
  /\ \A c \in sink : c.kind # "time"
  /\ \A g \in spawned : g.kind # "time"

\* The three records were handed over in one batch by the size test.
ThreeInOneBatch ==
  \/ \E c \in sink : c.kind = "size" /\ c.recs = <<1, 2, 3>>
  \/ \E g \in spawned : g.kind = "size" /\ g.recs = <<1, 2, 3>>

\* C10 as stated: with batch size 3, once three records were accepted a
\* flush of exactly those three has happened without timer and shutdown.
SizeScenario == SizeScenarioPre => ThreeInOneBatch

\* C10, amended: the same with a single worker, or with the shared buffer.
SizeScenarioOneWorker ==
  (SizeScenarioPre /\ (impl = "pool" => workers = 1)) => ThreeInOneBatch

\* The single worker has flushed the three records by its size test.
SizeScenarioFlushed ==
  /\ SizeScenarioPre
  /\ impl = "pool"
  /\ workers = 1
  /\ \E c \in sink : sink = {c} /\ c.kind = "size" /\ c.recs = <<1, 2, 3>>

\* Scenario C: a batch size above 2, two records were accepted and have
\* been taken from the queue (or put in the shared buffer), no request is
\* under way, nothing has been flushed and there has been no shutdown.
TimeScenarioPre ==
  /\ batchSize > 2
  /\ attempts = 2
  /\ nacc = 2
  /\ ~stop
  /\ queue = <<>>
  /\ sink = {}
  /\ spawned = {}

\* A step hands a time-triggered batch of exactly the two records over.
TwoByTimer ==
  \/ \E c \in sink' \ sink : c.kind = "time" /\ c.recs = <<1, 2>>
  \/ \E g \in spawned' \ spawned : g.kind = "time" /\ g.recs = <<1, 2>>

\* In the state of scenario C the flush that the timer causes holds exactly
\* the two records.
TimerFlushesBoth ==
  [][(TimeScenarioPre /\ (sink' # sink \/ spawned' # spawned)) => TwoByTimer]_vars

\* Every accepted record is eventually handed to the Sink.
EventuallySunk == \A k \in 1..TimeRecords : (nacc >= k) ~> (k \in Sunk)

\* C11 as stated: in scenario C the timer's flush holds exactly the two
\* records, and without shutdown every accepted record is eventually
\* handed to the Sink.
TimeScenario == TimerFlushesBoth /\ EventuallySunk

\* C11, amended: the same, the scenario with a single worker or with the
\* shared buffer.
TimeScenarioOneWorker ==
  /\ [][(TimeScenarioPre /\ (impl = "pool" => workers = 1)
          /\ (sink' # sink \/ spawned' # spawned)) => TwoByTimer]_vars
  /\ EventuallySunk

\* The single worker has flushed the two records on a tick.
TimeScenarioFlushed ==
  /\ impl = "pool"
  /\ workers = 1
  /\ batchSize > 2
  /\ nacc = 2
  /\ \E c \in sink : sink = {c} /\ c.kind = "time" /\ c.recs = <<1, 2>>

AllIdle == \A h \in Handlers : hpc[h] = "idle"

\* Scenario A: once k <= 9 attempts have returned, k records are in the
\* queue; once the 10th has returned, 9 are and one was shed.
NineThenShed ==
  (impl = "pool" /\ qcap = 10 /\ dropThresh = 90 /\ AllIdle) =>
    /\ attempts <= 9 => nacc = attempts
    /\ attempts = 10 => (nacc = 9 /\ nshed = 1)

\* An attempt that returns was accepted exactly when the queue is below
\* the threshold: a shed attempt finds it at or above, an attempt that goes
\* on to the send finds it below, and the send succeeds exactly when it
\* still is below.
AcceptedBelow ==
  /\ (attempts' = attempts + 1) =>
       ((hpc' = hpc) <=> (Len(queue) * 100 >= qcap * dropThresh))
  /\ \A h \in Handlers :
       (hpc[h] = "send" /\ hpc'[h] = "idle") =>
         ((nacc' = nacc + 1) <=> (Len(queue) * 100 < qcap * dropThresh))

RequestIsolation ==
  /\ out.ret = out.next
  /\ \A h \in Handlers : res[h].local = res[h].next

\* A failure status and an error have been returned after an entry was
\* shed, one was dropped by the send and an Upload call failed.
ErrorReturnedAfterLosses ==
  /\ out.ret = <<2, TRUE>>
  /\ nshed > 0
  /\ ndrop > 0
  /\ failed # {}

\* C14: once setup has run on a batch size of 0 or below, it has returned
\* an error and nothing was started: no ticker goroutine, no buffer taking
\* entries.
InvalidBatchRejected ==
  (arg.num /\ arg.val <= 0 /\ spc # "setup") =>
    (spc = "error" /\ tpc = "none" /\ attempts = 0)

\* The states of a worker: in the main loop (at its select, or in an Upload
\* call made from it); in the drain loop (at its select, or in an Upload
\* call made from it, the final flush included); returned.
Running(w) == wpc[w] = "select" \/ (wpc[w] = "upload" /\ wret[w] = "select")
Draining(w) == wpc[w] = "drain" \/ (wpc[w] = "upload" /\ wret[w] # "select")
Stopped(w) == wpc[w] = "stopped"

\* C15: a worker moves only Running -> Draining -> Stopped: it leaves
\* Running only for Draining and only once s.stop is closed, it leaves
\* Draining only for Stopped, it never leaves Stopped, and it enters Stopped
\* only out of the Upload call of its final flush, failed or not, or out of
\* a final flush that found nothing to send.
WorkerStateMachine ==
  [][\A w \in Workers :
       /\ Running(w) => (Running(w)' \/ (Draining(w)' /\ stop))
       /\ Draining(w) => (Draining(w)' \/ Stopped(w)')
       /\ Stopped(w) => Stopped(w)'
       /\ (~Stopped(w) /\ Stopped(w)') =>
            \/ /\ wpc[w] = "upload"
               /\ \E c \in LastCall(w) : c.kind = "final" /\ c.recs = inflight[w]
            \/ wpc[w] = "drain" /\ batch[w] = <<>> /\ queue = <<>>]_vars

\* A worker has stopped out of a final flush whose Upload call failed, and
\* another out of one that succeeded.
StoppedAfterFailedFlush ==
  /\ \E w \in Workers :
       wpc[w] = "stopped" /\ \E c \in failed : c.by = w /\ c.kind = "final"
  /\ \E w \in Workers :
       wpc[w] = "stopped" /\ \E c \in sink \ failed : c.by = w /\ c.kind = "final"

\* After the shutdown signal every worker reaches Stopped.
WorkersStop == stop ~> AllStopped

\* C16: after the shutdown signal every worker observes it, drains, makes
\* its final flush and reaches Stopped; and when all workers are Stopped
\* the queue is empty.
DrainTerminates ==
  /\ WorkersStop
  /\ [](AllStopped => queue = <<>>)

\* Nothing waits on a worker inside Upload: a handler can always take its
\* next step, and a worker that is not stuck can draw whenever it is at its
\* select and the queue holds an entry, flush its batch on a tick, and
\* return from its own Upload call.
NoOneWaits ==
  /\ \A h \in Handlers :
       /\ hpc[h] = "send" => ENABLED Enqueue(h)
       /\ (hpc[h] = "idle" /\ attempts < maxRec) => ENABLED ServeDNS(h)
  /\ \A w \in Workers \ StuckWorkers :
       /\ (wpc[w] = "select" /\ queue # <<>>) => ENABLED WorkerRecv(w)
       /\ (wpc[w] = "select" /\ batch[w] # <<>>) => ENABLED <<WorkerTick(w)>>_vars
       /\ wpc[w] = "upload" => ENABLED UploadReturn(w)

\* C17: with the Upload calls of one worker never returning, nothing waits
\* on that worker, every entry in the queue is eventually drawn, and every
\* entry drawn by another worker is eventually handed to the Sink.
StuckSinkIsolation ==
  /\ []NoOneWaits
  /\ \A k \in 1..TimeRecords :
       /\ (k \in Range(queue)) ~> (k \notin Range(queue))
       /\ (\E w \in Workers \ StuckWorkers : k \in Range(batch[w])) ~> (k \in Sunk)

\* With a worker stuck in Upload, another worker has flushed, on a tick, an
\* entry accepted after the entries of the stuck call.
FlushedPastStuck ==
  \E w \in StuckWorkers, c, d \in sink :
    /\ wpc[w] = "upload"
    /\ c.by = w
    /\ d.by \notin StuckWorkers
    /\ d.kind = "time"
    /\ d.recs[1] > c.recs[1]

\* The entries of the failed Upload calls.
Lost == UNION {Range(c.recs) : c \in failed}

\* The entries held in the queue, in a worker's batch, in the shared buffer
\* or by a goroutine that has not called Upload yet.
Pending ==
  Range(queue) \cup Range(entries)
    \cup UNION {Range(batch[w]) : w \in Workers}
    \cup UNION {Range(g.recs) : g \in spawned}

\* C18: the entries of a failed Upload call are nowhere in the pipeline and
\* in no other Upload call, no entry is handed to the Sink twice, and the
\* return of an Upload call leaves the worker where the call was made from,
\* with the queue, its batch and the calls as they were, failed or not.
NoRetry ==
  /\ [](Lost \cap Pending = {} /\ NoDuplicate)
  /\ [][\A w \in Workers :
          (wpc[w] = "upload" /\ wpc'[w] # "upload") =>
            /\ wpc'[w] = wret[w]
            /\ batch' = batch
            /\ queue' = queue
            /\ sink' = sink]_vars

\* An Upload call of a worker has failed, and the worker has made a later
\* call of other entries.
WentOnAfterFailure ==
  \E c \in failed, d \in sink :
    d.by = c.by /\ d.n > c.n /\ Range(d.recs) \cap Range(c.recs) = {}

\* The entries of s are in the order in which they were accepted.
InOrder(s) == \A i, j \in 1..Len(s) : i < j => s[i] < s[j]

\* C19: every batch handed to the Sink, on its way to it or still being
\* accumulated holds its entries in the order in which they were accepted.
BatchOrder ==
  /\ \A c \in sink : InOrder(c.recs)
  /\ \A g \in spawned : InOrder(g.recs)
  /\ \A w \in Workers : InOrder(batch[w]) /\ InOrder(inflight[w])
  /\ InOrder(queue)
  /\ InOrder(entries)

\* With two workers drawing, a batch has been handed to the Sink that holds
\* the first and the third accepted entry and not the second.
BatchWithGap ==
  /\ workers = 2
  /\ \E c \in sink : c.recs = <<1, 3>>

\* A step in which a worker flushes hands over its batch as it stands, the
\* entry just drawn included, and leaves the batch empty.
WorkerFlushResets ==
  \A c \in sink' \ sink :
    /\ c.recs = IF queue' # queue THEN Append(batch[c.by], Head(queue))
                                  ELSE batch[c.by]
    /\ batch'[c.by] = <<>>
    /\ inflight'[c.by] = c.recs

\* A step that takes a batch out of the shared buffer takes the entries as
\* they stand, the entry just added included, and leaves the buffer empty.
BufferFlushResets ==
  \A g \in (spawned' \ spawned) \cup {c \in sink' \ sink : c.by = "shutdown"} :
    /\ g.recs = IF nacc' # nacc THEN Append(entries, nacc') ELSE entries
    /\ entries' = <<>>

\* A batch that was handed over stays as it is: an Upload call made stays
\* made, a batch inside Upload does not change during the call, and a batch
\* held by a goroutine that has not called Upload yet is the batch it
\* calls Upload with.
HandedBatchesStay ==
  /\ sink \subseteq sink'
  /\ \A w \in Workers :
       (wpc[w] = "upload" /\ wpc'[w] = "upload") => inflight'[w] = inflight[w]
  /\ \A g \in spawned :
       g \in spawned' \/ \E c \in sink' \ sink : c.recs = g.recs

\* A step that changes a worker's batch is a step of that worker: it moves
\* no other worker and changes no other worker's batch.
OwnBatchOnly ==
  \A w, x \in Workers :
    (x # w /\ batch'[w] # batch[w]) =>
      (wpc'[x] = wpc[x] /\ batch'[x] = batch[x] /\ inflight'[x] = inflight[x])

\* C20: a non-empty flush hands the Sink the buffer's contents at that
\* moment and leaves the buffer empty, what is accumulated afterwards
\* changes no batch already handed over, and no worker touches another
\* worker's buffer.
FlushCopiesAndResets ==
  [][/\ IF impl = "pool" THEN WorkerFlushResets ELSE BufferFlushResets
     /\ HandedBatchesStay
     /\ OwnBatchOnly]_vars

\* A goroutine that has not called Upload yet holds a batch taken out of the
\* shared buffer, and the buffer holds an entry added since.
AccumulatedAfterFlush ==
  \E g \in spawned : entries # <<>> /\ g.recs[1] < entries[1]


\* The Upload calls made and not yet returned.
InFlight == sink \ returned

\* Each worker has at most one Upload call in flight, the call it is inside
\* of, and the calls in flight are no more than the workers.
OneCallPerWorker ==
  /\ \A c \in InFlight :
       /\ c.by \in Workers
       /\ wpc[c.by] = "upload"
       /\ inflight[c.by] = c.recs
  /\ \A c, d \in InFlight : c.by = d.by => c = d
  /\ Cardinality(InFlight) <= workers

\* A step during which a call stays in flight leaves its worker inside
\* Upload with its batch as it was and makes no other call of that worker;
\* and an entry leaves the queue only in a step of a worker that is at one
\* of its selects.
NoDrawInsideCall ==
  /\ \A c \in InFlight \cap InFlight' :
       /\ wpc'[c.by] = "upload"
       /\ batch'[c.by] = batch[c.by]
       /\ \A d \in sink' \ sink : d.by # c.by
  /\ Len(queue') < Len(queue) =>
       \E w \in Workers :
         /\ wpc[w] \in {"select", "drain"}
         /\ wpc'[w] # wpc[w] \/ batch'[w] # batch[w]

\* C21: in the worker pool each worker has at most one Sink call in flight
\* and draws no record while it is inside a Sink call, so the Sink calls in
\* flight are never more than the configured workers.
BoundedSinkConcurrency ==
  /\ [](impl = "pool" => OneCallPerWorker)
  /\ [][impl = "pool" => NoDrawInsideCall]_vars

\* Both workers are inside a Sink call while an entry waits in the queue.
AllWorkersInSink ==
  /\ workers = 2
  /\ Cardinality(InFlight) = 2
  /\ queue # <<>>


\* The batches returned by Add and Flush calls so far: those held by
\* goroutines that have not called Upload yet, and those Upload was called
\* with.
Handed == {g.recs : g \in spawned} \cup {c.recs : c \in sink}

\* The goroutines inside Add or Flush, past b.mu.Lock().
Holders ==
  {<<"handler", h>> : h \in {x \in Handlers : hpc[x] = "locked"}}
    \cup (IF tpc = "locked" THEN {<<"ticker">>} ELSE {})
    \cup (IF sdpc = "locked" THEN {<<"shutdown">>} ELSE {})

\* At most one goroutine is inside Add or Flush, and it holds the mutex.
MutualExclusion == Holders = {mu} \ {NoOne}

\* No entry is twice in the buffer, twice in a returned batch, in two
\* returned batches, or in the buffer and in a returned batch.
ReturnedOnce ==
  /\ Cardinality(Range(entries)) = Len(entries)
  /\ \A b \in Handed :
       /\ Cardinality(Range(b)) = Len(b)
       /\ Range(b) \cap Range(entries) = {}
  /\ \A b, d \in Handed : b # d => Range(b) \cap Range(d) = {}

\* C22: however the Add calls of the handlers and the Flush calls of the
\* ticker goroutine and of Shutdown interleave, they run one at a time,
\* every entry added is in exactly one returned batch or still in the
\* buffer, and the returned batches and the buffer together hold exactly
\* the entries added so far.
BufferLinearizable ==
  impl = "buffer" =>
    /\ MutualExclusion
    /\ ReturnedOnce
    /\ Range(entries) \cup UNION {Range(b) : b \in Handed} = 1..nacc

\* A handler is inside Add while the ticker goroutine and Shutdown both
\* wait for the mutex in Flush, with a batch already returned and an entry
\* added since in the buffer.
AddWhileFlushesWait ==
  /\ impl = "buffer"
  /\ \E h \in Handlers : hpc[h] = "locked"
  /\ tpc = "flush"
  /\ sdpc = "flush"
  /\ Handed # {}
  /\ entries # <<>>

====
